---- MODULE Spec2Model ----
(***************************************************************************)
(* exemcl::SubmodularFunction<HostDataType>                                *)
(* (src/src/function/SubmodularFunction.h): the default marginal-gain and  *)
(* batch operators built on the pure virtual evaluation operator, the      *)
(* OpenMP parallel loop of the batch operator, and the worker-count field. *)
(*                                                                         *)
(* HostDataType values are modelled as integers; a MatrixX is a record     *)
(* [cols, rows] whose rows are sequences of length cols; a VectorXRef is a *)
(* sequence.                                                               *)
(***************************************************************************)
EXTENDS Integers, Sequences, FiniteSets, TLC

\* ---------------------------------------------------------------- bounds
\* Largest number of sets in S_multi / of vectors in elems.
MaxBatch == 2
\* Largest explicit worker count passed to setWorkerCount, and the largest
\* value std::thread::hardware_concurrency() reports.
MaxWorkers == 2

\* ------------------------------------------------------ program constants
\* Default argument of the constructor.
DefaultWorkerCount == -1
\* Value setWorkerCount falls back to when no hardware hint is available.
FallbackWorkerCount == 1

\* ----------------------------------------------------------------- inputs
\* Marginal vectors handed to the operators (widths 2 and 1).
Elements == { <<1, 1>>, <<0, 1>>, <<2>> }

\* Sets S handed to the operators: 0 x 2, 2 x 2 and 1 x 1 matrices.
Collections ==
    { [cols |-> 2, rows |-> << >>],
      [cols |-> 2, rows |-> << <<1, 0>>, <<0, 1>> >>],
      [cols |-> 1, rows |-> << <<3>> >>] }

MultiCollections == UNION { [1..n -> Collections] : n \in 0..MaxBatch }
ElementSeqs == UNION { [1..n -> Elements] : n \in 0..MaxBatch }

\* Arguments of setWorkerCount(int).
WorkerArgs == DefaultWorkerCount..MaxWorkers
\* Values std::thread::hardware_concurrency() may report (0: unknown).
HwValues == {0, MaxWorkers}
\* What hardware_concurrency() may report to setWorkerCount(n): it is
\* asked only when n < 1 (h = 0 stands for "not asked" otherwise).
Detected(n) == IF n >= 1 THEN {0} ELSE HwValues

\* Thread numbers of the largest possible team.
Threads == 1..MaxWorkers
\* Contents of a coefficient that conservativeResize left uninitialized.
Garbage == {0, 5}
\* Concrete subclasses supplying operator()(const MatrixX&).
Fns == {"sum", "weighted"}

NoError == [kind |-> "none", first |-> 0, second |-> 0]
EvaluationFailure == [kind |-> "evaluation", first |-> 0, second |-> 0]
NoCall == [op |-> "none", S |-> [cols |-> 0, rows |-> << >>], elem |-> << >>,
           S_multi |-> << >>, elems |-> << >>]

\* --------------------------------------------------------- pure operators
RECURSIVE SeqSum(_)
SeqSum(s) == IF s = << >> THEN 0 ELSE Head(s) + SeqSum(Tail(s))

RECURSIVE WeightedSum(_, _)
WeightedSum(rows, k) ==
    IF rows = << >> THEN 0
    ELSE k * SeqSum(Head(rows)) + WeightedSum(Tail(rows), k + 1)

RECURSIVE TotalSum(_)
TotalSum(rows) ==
    IF rows = << >> THEN 0 ELSE SeqSum(Head(rows)) + TotalSum(Tail(rows))

\* operator()(const MatrixX& S) of the concrete subclass f. "sum": the sum of
\* all coefficients. "weighted": the row sums weighted by the 1-based row
\* number, so the value depends on the row an element is stored in.
Evaluate(f, S) ==
    IF f = "sum" THEN TotalSum(S.rows) ELSE WeightedSum(S.rows, 1)

\* The row written by `row(S.rows()) << elem.transpose()` into the row that
\* conservativeResize added: elem itself when the widths agree. When they do
\* not (only reachable on the unchecked batch paths) the coefficients elem
\* does not cover keep the uninitialized content g and the surplus of elem
\* does not land in the row.
NewRow(cols, elem, g) ==
    [j \in 1..cols |-> IF j <= Len(elem) THEN elem[j] ELSE g]

\* Copy of S, conservativeResize(S.rows() + 1, NoChange), elem as last row.
AppendRow(S, elem, g) ==
    [cols |-> S.cols, rows |-> Append(S.rows, NewRow(S.cols, elem, g))]

MarginalGainValue_swapped(f, S, elem) ==
    Evaluate(f, S) - Evaluate(f, AppendRow(S, elem, 0))

\* operator()(S, elem), the branch S.cols() == elem.size().
MarginalGainValue(f, S, elem) ==
    Evaluate(f, AppendRow(S, elem, 0)) - Evaluate(f, S)

MismatchError_swapped(S, elem) ==
    [kind |-> "runtime_error", first |-> Len(elem), second |-> S.cols]

\* The std::runtime_error of operator()(S, elem): "... do not match
\* (<S.cols()> vs. <elem.size()>)."
MismatchError(S, elem) ==
    [kind |-> "runtime_error", first |-> S.cols, second |-> Len(elem)]

SetWorkerCountValue_zero(workerCount, suggestedThreads) ==
    IF workerCount >= 0 THEN workerCount
    ELSE IF suggestedThreads > 0 THEN suggestedThreads ELSE FallbackWorkerCount

\* The value setWorkerCount(workerCount) stores in _workerCount when
\* hardware_concurrency() reports suggestedThreads. An int >= 1 converts to
\* unsigned int unchanged.
SetWorkerCountValue(workerCount, suggestedThreads) ==
    IF workerCount >= 1 THEN workerCount
    ELSE IF suggestedThreads > 0 THEN suggestedThreads ELSE FallbackWorkerCount

\* utilities.resize(S_multi.size()): value-initialized entries. `writes`
\* counts the assignments to the entry.
FreshUtilities(n) == [i \in 1..n |-> [val |-> 0, writes |-> 0]]

StoreUtility_reversed(utils, i, v) ==
    [utils EXCEPT ![Len(utils) + 1 - i] = [val |-> v, writes |-> @.writes + 1]]

\* utilities[i] = operator()(S_multi[i]).
StoreUtility(utils, i, v) ==
    [utils EXCEPT ![i] = [val |-> v, writes |-> @.writes + 1]]

Values(utils) == [i \in 1..Len(utils) |-> utils[i].val]

\* {S_1 u e, ..., S_n u e} built by operator()(S_multi, elem).
AugmentMulti(multi, elem, g) ==
    [i \in 1..Len(multi) |-> AppendRow(multi[i], elem, g)]

\* {S u e_1, ..., S u e_n} built by operator()(S, elems).
AugmentElems(S, elems, g) ==
    [i \in 1..Len(elems) |-> AppendRow(S, elems[i], g)]

MultiGains_swapped(utilityS_multi_elem, utilityS_multi) ==
    [i \in 1..Len(utilityS_multi) |-> utilityS_multi[i] - utilityS_multi_elem[i]]

\* marginalGains[i] = utilityS_multi_elem[i] - utilityS_multi[i].
MultiGains(utilityS_multi_elem, utilityS_multi) ==
    [i \in 1..Len(utilityS_multi) |-> utilityS_multi_elem[i] - utilityS_multi[i]]

ElemsGains_first(S_elems_funcValue, funcValue, n) ==
    [i \in 1..n |-> S_elems_funcValue[1] - funcValue]

\* gains[i] = S_elems_funcValue[i] - S_funcValue.
ElemsGains(S_elems_funcValue, funcValue, n) ==
    [i \in 1..n |-> S_elems_funcValue[i] - funcValue]

SetMin(s) == CHOOSE x \in s : \A y \in s : x <= y

\* ------------------------------------------------------------------ state
VARIABLES
    openmp,          \* the build honours `#pragma omp` (FALSE: the loop is serial)
    fn,              \* the concrete subclass
    _workerCount,    \* SubmodularFunction::_workerCount
    call,            \* the operator call of the caller thread and its arguments
    pc,              \* "idle", "batch", "returned", "raised", "terminated"
    batchNo,         \* which batch operator call of `call` is running
    S_multi,         \* argument of the running batch operator call
    utilities,       \* its local vector
    pending,         \* loop indices no thread has started
    running,         \* thread -> loop index it is evaluating (0: none)
    numThreads,      \* num_threads(_workerCount) as read at the pragma
    S_multi_elem,    \* the augmented sets of operator()(S_multi, elem)
    utilityS_multi,  \* its first batch result
    S_funcValue,     \* f(S) of operator()(S, elems)
    result,          \* returned value(s), as a sequence
    error,           \* the exception that left the call
    nEval,           \* invocations of operator()(S) during `call`
    nEvalS,          \* ... of those, on a matrix equal to the argument S
    nBatch,          \* invocations of operator()(S_multi) during `call`
    primFailed       \* an invocation of operator()(S) threw during `call`

vars == << openmp, fn, _workerCount, call, pc, batchNo, S_multi,
           utilities, pending, running, numThreads, S_multi_elem,
           utilityS_multi, S_funcValue, result, error, nEval, nEvalS, nBatch,
           primFailed >>

config == << openmp, fn >>
batch == << S_multi, utilities, pending, running, numThreads >>
locals == << S_multi_elem, utilityS_multi, S_funcValue >>

NoThreads == [t \in Threads |-> 0]

\* State after SubmodularFunction(workerCount) of a subclass among fns: the
\* constructor is one setWorkerCount(n) call, n = DefaultWorkerCount when no
\* argument is given; no operator has been called.
Constructed(fns) ==
    /\ openmp \in BOOLEAN
    /\ fn \in fns
    /\ \E n \in WorkerArgs : \E h \in Detected(n) :
          _workerCount = SetWorkerCountValue(n, h)
    /\ call = NoCall
    /\ pc = "idle"
    /\ batchNo = 0
    /\ S_multi = << >>
    /\ utilities = << >>
    /\ pending = {}
    /\ running = NoThreads
    /\ numThreads = 0
    /\ S_multi_elem = << >>
    /\ utilityS_multi = << >>
    /\ S_funcValue = 0
    /\ result = << >>
    /\ error = NoError
    /\ nEval = 0
    /\ nEvalS = 0
    /\ nBatch = 0
    /\ primFailed = FALSE

Init == Constructed(Fns)

\* The caller thread is free to enter an operator.
CanCall == pc = "idle"

\* The caller has taken the returned value, or caught the exception, and
\* goes on; nothing of the finished call is kept by the object.
CallerContinues ==
    /\ pc \in {"returned", "raised"}
    /\ pc' = "idle"
    /\ call' = NoCall
    /\ result' = << >>
    /\ error' = NoError
    /\ nEval' = 0
    /\ nEvalS' = 0
    /\ nBatch' = 0
    /\ primFailed' = FALSE
    /\ UNCHANGED << config, _workerCount, batchNo, batch, locals >>

\* setWorkerCount(n), from any thread, also while a batch is running;
\* h is what hardware_concurrency() reports to this call.
SetWorkerCount(n, h) ==
    /\ pc # "terminated"
    /\ h \in Detected(n)
    /\ _workerCount' = SetWorkerCountValue(n, h)
    /\ UNCHANGED << config, call, pc, batchNo, batch, locals, result, error,
                    nEval, nEvalS, nBatch, primFailed >>

\* What entering an operator with arguments c leaves alone.
Enter(c) ==
    /\ CanCall
    /\ call' = c
    /\ UNCHANGED << config, _workerCount >>

NoBatch ==
    /\ S_multi' = << >>
    /\ utilities' = << >>
    /\ pending' = {}
    /\ running' = NoThreads
    /\ numThreads' = 0

NoLocals ==
    /\ S_multi_elem' = << >>
    /\ utilityS_multi' = << >>
    /\ S_funcValue' = 0

\* The call ends: by return (how = "returned"), by an exception e that
\* reaches the caller ("raised"), or with the process ("terminated").
Leave(how, r, e) ==
    /\ pc' = how
    /\ result' = r
    /\ error' = e
    /\ batchNo' = 0
    /\ NoBatch
    /\ NoLocals

\* ----------------------------------------------- operator()(S, elem)
\* Widths agree and both evaluations return.
MarginalGainReturns(S, elem) ==
    /\ Enter([NoCall EXCEPT !.op = "marginalGain", !.S = S, !.elem = elem])
    /\ S.cols = Len(elem)
    /\ Leave("returned", << MarginalGainValue(fn, S, elem) >>, NoError)
    /\ nEval' = 2
    /\ nEvalS' = 1
    /\ nBatch' = 0
    /\ primFailed' = FALSE

\* Widths agree and one of the two evaluations throws; the operands of `-`
\* are evaluated in either order.
MarginalGainThrows(S, elem) ==
    /\ Enter([NoCall EXCEPT !.op = "marginalGain", !.S = S, !.elem = elem])
    /\ S.cols = Len(elem)
    /\ Leave("raised", << >>, EvaluationFailure)
    /\ \E n \in 1..2, k \in 0..1 :
          /\ n = 2 => k = 1
          /\ nEval' = n
          /\ nEvalS' = k
    /\ nBatch' = 0
    /\ primFailed' = TRUE

\* Widths differ: the else branch.
MarginalGainMismatch(S, elem) ==
    /\ Enter([NoCall EXCEPT !.op = "marginalGain", !.S = S, !.elem = elem])
    /\ S.cols # Len(elem)
    /\ Leave("raised", << >>, MismatchError(S, elem))
    /\ nEval' = 0
    /\ nEvalS' = 0
    /\ nBatch' = 0
    /\ primFailed' = FALSE

\* ------------------------------------------------- operator()(S_multi)
\* Lines 87-91: size the result vector and open the parallel region, whose
\* team size is the value of _workerCount at this moment.
StartBatch(multi) ==
    /\ S_multi' = multi
    /\ utilities' = FreshUtilities(Len(multi))
    /\ pending' = 1..Len(multi)
    /\ running' = NoThreads
    /\ numThreads' = _workerCount

EvaluateBatch(multi) ==
    /\ Enter([NoCall EXCEPT !.op = "evaluateBatch", !.S_multi = multi])
    /\ pc' = "batch"
    /\ batchNo' = 1
    /\ StartBatch(multi)
    /\ NoLocals
    /\ result' = << >>
    /\ error' = NoError
    /\ nEval' = 0
    /\ nEvalS' = 0
    /\ nBatch' = 1
    /\ primFailed' = FALSE

Team_live == IF openmp THEN 1.._workerCount ELSE {1}

\* The threads that execute loop iterations: the team of the parallel
\* region, or the caller alone when the pragma is not honoured.
Team == IF openmp THEN 1..numThreads ELSE {1}

InFlight == { t \in Threads : running[t] # 0 }

\* Thread t starts iteration i: it invokes operator()(S_multi[i]). OpenMP
\* leaves the assignment of iterations to threads to the schedule; the
\* serial loop runs them in index order.
WorkerBegin(t, i) ==
    /\ pc = "batch"
    /\ t \in Team
    /\ running[t] = 0
    /\ i \in pending
    /\ openmp \/ i = SetMin(pending)
    /\ pending' = pending \ {i}
    /\ running' = [running EXCEPT ![t] = i]
    /\ nEval' = nEval + 1
    /\ nEvalS' = nEvalS + (IF S_multi[i] = call.S THEN 1 ELSE 0)
    /\ UNCHANGED << config, _workerCount, call, pc, batchNo, S_multi, utilities,
                    numThreads, locals, result, error, nBatch, primFailed >>

\* The evaluation of thread t returns and is stored.
WorkerEnd(t) ==
    /\ pc = "batch"
    /\ running[t] # 0
    /\ utilities' = StoreUtility(utilities, running[t],
                                 Evaluate(fn, S_multi[running[t]]))
    /\ running' = [running EXCEPT ![t] = 0]
    /\ UNCHANGED << config, _workerCount, call, pc, batchNo, S_multi, pending,
                    numThreads, locals, result, error, nEval, nEvalS, nBatch,
                    primFailed >>

\* The evaluation of thread t throws inside the parallel region. No handler
\* exists in the region, and an exception must not leave an OpenMP region:
\* the runtime ends the process (std::terminate).
WorkerThrowsInRegion(t) ==
    /\ pc = "batch"
    /\ openmp
    /\ running[t] # 0
    /\ Leave("terminated", << >>, NoError)
    /\ primFailed' = TRUE
    /\ UNCHANGED << config, _workerCount, call, nEval, nEvalS, nBatch >>

\* The evaluation throws in the serial loop: the exception unwinds through
\* every operator to the caller.
WorkerThrowsSerial(t) ==
    /\ pc = "batch"
    /\ ~openmp
    /\ running[t] # 0
    /\ Leave("raised", << >>, EvaluationFailure)
    /\ primFailed' = TRUE
    /\ UNCHANGED << config, _workerCount, call, nEval, nEvalS, nBatch >>

JoinReady_nowait == pending = {}

\* The implicit barrier that ends the parallel region: every iteration has
\* been executed to its end.
JoinReady == pending = {} /\ InFlight = {}

\* Lines 95-96 of a directly called operator()(S_multi).
JoinEvaluateBatch ==
    /\ pc = "batch"
    /\ call.op = "evaluateBatch"
    /\ JoinReady
    /\ Leave("returned", Values(utilities), NoError)
    /\ UNCHANGED << config, _workerCount, call, nEval, nEvalS, nBatch, primFailed >>

\* ------------------------------------------- operator()(S_multi, elem)
MultiMismatch(multi, elem) == \E i \in 1..Len(multi) : multi[i].cols # Len(elem)
MultiUncovered(multi, elem) == \E i \in 1..Len(multi) : multi[i].cols > Len(elem)

\* Lines 117-128: build the augmented sets (no width check on this path),
\* then call operator()(S_multi). g is the content of the coefficients a
\* narrower elem leaves unwritten.
GainMulti(multi, elem, g) ==
    /\ Enter([NoCall EXCEPT !.op = "gainMulti", !.S_multi = multi, !.elem = elem])
    /\ g \in (IF MultiUncovered(multi, elem) THEN Garbage ELSE {0})
    /\ pc' = "batch"
    /\ batchNo' = 1
    /\ S_multi_elem' = AugmentMulti(multi, elem, g)
    /\ utilityS_multi' = << >>
    /\ S_funcValue' = 0
    /\ StartBatch(multi)
    /\ result' = << >>
    /\ error' = NoError
    /\ nEval' = 0
    /\ nEvalS' = 0
    /\ nBatch' = 1
    /\ primFailed' = FALSE

\* Lines 123-124 with a width that differs: Eigen's comma initializer
\* asserts the sizes, and the failed assertion aborts the process (the other
\* outcome, a build without assertions, is GainMulti with its g).
GainMultiAborts(multi, elem) ==
    /\ Enter([NoCall EXCEPT !.op = "gainMulti", !.S_multi = multi, !.elem = elem])
    /\ MultiMismatch(multi, elem)
    /\ Leave("terminated", << >>, NoError)
    /\ nEval' = 0
    /\ nEvalS' = 0
    /\ nBatch' = 0
    /\ primFailed' = FALSE

\* Line 128 returned: keep utilityS_multi and call operator()(*S_multi_elem)
\* (line 129), which reads _workerCount anew.
JoinGainMultiFirst ==
    /\ pc = "batch"
    /\ call.op = "gainMulti"
    /\ batchNo = 1
    /\ JoinReady
    /\ utilityS_multi' = Values(utilities)
    /\ StartBatch(S_multi_elem)
    /\ batchNo' = 2
    /\ nBatch' = nBatch + 1
    /\ UNCHANGED << config, _workerCount, call, pc, S_multi_elem, S_funcValue,
                    result, error, nEval, nEvalS, primFailed >>

\* Line 129 returned: lines 132-138.
JoinGainMultiSecond ==
    /\ pc = "batch"
    /\ call.op = "gainMulti"
    /\ batchNo = 2
    /\ JoinReady
    /\ Leave("returned", MultiGains(Values(utilities), utilityS_multi), NoError)
    /\ UNCHANGED << config, _workerCount, call, nEval, nEvalS, nBatch, primFailed >>

\* ---------------------------------------------- operator()(S, elems)
ElemsMismatch(S, elems) == \E j \in 1..Len(elems) : S.cols # Len(elems[j])
ElemsUncovered(S, elems) == \E j \in 1..Len(elems) : S.cols > Len(elems[j])

AugmentElems_noAppend(S, elems, g) == [i \in 1..Len(elems) |-> S]

\* Lines 161-168.
ElemsBatchInput(S, elems, g) == AugmentElems(S, elems, g)

\* Lines 161-174: build the augmented copies (no width check), evaluate S
\* on the caller thread, then call operator()(*S_elems).
GainElems(S, elems, g) ==
    /\ Enter([NoCall EXCEPT !.op = "gainElems", !.S = S, !.elems = elems])
    /\ g \in (IF ElemsUncovered(S, elems) THEN Garbage ELSE {0})
    /\ pc' = "batch"
    /\ batchNo' = 1
    /\ S_funcValue' = Evaluate(fn, S)
    /\ S_multi_elem' = << >>
    /\ utilityS_multi' = << >>
    /\ StartBatch(ElemsBatchInput(S, elems, g))
    /\ result' = << >>
    /\ error' = NoError
    /\ nEval' = 1
    /\ nEvalS' = 1
    /\ nBatch' = 1
    /\ primFailed' = FALSE

\* Line 171 throws: outside any parallel region, the exception reaches the
\* caller.
GainElemsThrows(S, elems) ==
    /\ Enter([NoCall EXCEPT !.op = "gainElems", !.S = S, !.elems = elems])
    /\ Leave("raised", << >>, EvaluationFailure)
    /\ nEval' = 1
    /\ nEvalS' = 1
    /\ nBatch' = 0
    /\ primFailed' = TRUE

\* Lines 166-167 with a width that differs and assertions enabled.
GainElemsAborts(S, elems) ==
    /\ Enter([NoCall EXCEPT !.op = "gainElems", !.S = S, !.elems = elems])
    /\ ElemsMismatch(S, elems)
    /\ Leave("terminated", << >>, NoError)
    /\ nEval' = 0
    /\ nEvalS' = 0
    /\ nBatch' = 0
    /\ primFailed' = FALSE

\* Line 174 returned: lines 177-184.
JoinGainElems ==
    /\ pc = "batch"
    /\ call.op = "gainElems"
    /\ JoinReady
    /\ Leave("returned",
             ElemsGains(Values(utilities), S_funcValue, Len(call.elems)),
             NoError)
    /\ UNCHANGED << config, _workerCount, call, nEval, nEvalS, nBatch, primFailed >>

\* ---------------------------------------------------------- specification
WorkerStep ==
    \/ \E t \in Threads, i \in 1..MaxBatch : WorkerBegin(t, i)
    \/ \E t \in Threads : WorkerEnd(t)
    \/ \E t \in Threads : WorkerThrowsInRegion(t)
    \/ \E t \in Threads : WorkerThrowsSerial(t)

Join ==
    \/ JoinEvaluateBatch
    \/ JoinGainMultiFirst
    \/ JoinGainMultiSecond
    \/ JoinGainElems

Next ==
    \/ \E n \in WorkerArgs : \E h \in Detected(n) : SetWorkerCount(n, h)
    \/ \E S \in Collections, elem \in Elements : MarginalGainReturns(S, elem)
    \/ \E S \in Collections, elem \in Elements : MarginalGainThrows(S, elem)
    \/ \E S \in Collections, elem \in Elements : MarginalGainMismatch(S, elem)
    \/ \E multi \in MultiCollections : EvaluateBatch(multi)
    \/ \E multi \in MultiCollections, elem \in Elements, g \in Garbage :
          GainMulti(multi, elem, g)
    \/ \E multi \in MultiCollections, elem \in Elements :
          GainMultiAborts(multi, elem)
    \/ \E S \in Collections, elems \in ElementSeqs, g \in Garbage :
          GainElems(S, elems, g)
    \/ \E S \in Collections, elems \in ElementSeqs : GainElemsThrows(S, elems)
    \/ \E S \in Collections, elems \in ElementSeqs : GainElemsAborts(S, elems)
    \/ WorkerStep
    \/ Join
    \/ CallerContinues

Spec == Init /\ [][Next]_vars

\* The threads of a team run, every evaluation ends (by returning or by
\* throwing), and the caller proceeds past the barrier once it is open.
\* No guard of any action reads the values f returns, so progress is
\* checked for one subclass.
FairInit == Constructed({"sum"})
FairSpec ==
    /\ FairInit
    /\ [][Next]_vars
    /\ WF_vars(WorkerStep)
    /\ WF_vars(Join)

\* ------------------------------------------------------------ properties
\* S with e as new last row, written out.
WithLastRow(S, e) == [cols |-> S.cols, rows |-> S.rows \o << e >>]

Returned(op) == pc = "returned" /\ call.op = op

C2_BatchOrderPreserved ==
    /\ Returned("evaluateBatch") =>
          /\ Len(result) = Len(call.S_multi)
          /\ \A i \in 1..Len(result) : result[i] = Evaluate(fn, call.S_multi[i])
    /\ pc = "batch" =>
          /\ Len(utilities) = Len(S_multi)
          /\ \A i \in 1..Len(S_multi) :
                IF i \in pending \/ \E t \in Threads : running[t] = i
                THEN utilities[i].writes = 0
                ELSE /\ utilities[i].writes = 1
                     /\ utilities[i].val = Evaluate(fn, S_multi[i])
          /\ \A t, u \in Threads :
                (t # u /\ running[t] # 0) => running[t] # running[u]
          /\ \A t \in Threads : running[t] \notin pending

\* A batch of MaxBatch sets with different values has returned.
C2_Witness ==
    /\ Returned("evaluateBatch")
    /\ Len(result) = MaxBatch
    /\ result[1] # result[2]

\* C3: a returned operator()(S, elems) whose vectors all have S's width
\* yields, entry by entry and in the order of elems, what operator()(S, elem)
\* yields for that entry.
C3_ElemsBatchMatchesSingle ==
    (Returned("gainElems") /\ ~ElemsMismatch(call.S, call.elems)) =>
        /\ Len(result) = Len(call.elems)
        /\ \A j \in 1..Len(call.elems) :
              result[j] = MarginalGainValue(fn, call.S, call.elems[j])

C3_Witness ==
    /\ Returned("gainElems")
    /\ ~ElemsMismatch(call.S, call.elems)
    /\ Len(call.elems) = MaxBatch
    /\ result[1] # result[2]

\* C4: a returned operator()(S_multi, elem) whose sets all have elem's width
\* yields result[i] = the value of operator()(S_multi[i], elem); it called
\* operator()(S_multi) twice, first on the sets as given and then on the
\* augmented sets, with 2N evaluations in all.
C4_MultiBatchMatchesSingle ==
    /\ (Returned("gainMulti") /\ ~MultiMismatch(call.S_multi, call.elem)) =>
          /\ Len(result) = Len(call.S_multi)
          /\ \A i \in 1..Len(call.S_multi) :
                result[i] = MarginalGainValue(fn, call.S_multi[i], call.elem)
          /\ nBatch = 2
          /\ nEval = 2 * Len(call.S_multi)
    /\ (pc = "batch" /\ call.op = "gainMulti"
          /\ ~MultiMismatch(call.S_multi, call.elem)) =>
          /\ batchNo = 1 => S_multi = call.S_multi
          /\ batchNo = 2 =>
                S_multi = [i \in 1..Len(call.S_multi) |->
                              WithLastRow(call.S_multi[i], call.elem)]

C4_Witness ==
    /\ Returned("gainMulti")
    /\ ~MultiMismatch(call.S_multi, call.elem)
    /\ Len(call.S_multi) = MaxBatch
    /\ result[1] # result[2]
    /\ nEval = 2 * MaxBatch

\* C5: operator()(S, elem) with elem.size() # S.cols() ends with the
\* exception that carries S.cols() and then elem.size(), returns nothing
\* and has not evaluated f.
C5_MismatchRaises ==
    (call.op = "marginalGain" /\ call.S.cols # Len(call.elem)) =>
        /\ pc = "raised"
        /\ error.kind = "runtime_error"
        /\ error.first = call.S.cols
        /\ error.second = Len(call.elem)
        /\ result = << >>
        /\ nEval = 0

\* S two wide, elem one wide: sizes (2, 1).
C5_Witness ==
    /\ call.op = "marginalGain"
    /\ pc = "raised"
    /\ error = [kind |-> "runtime_error", first |-> 2, second |-> 1]

\* What setWorkerCount(n) is to store when the hardware reports h.
Resolved(n, h) == IF n >= 1 THEN n ELSE IF h = 0 THEN 1 ELSE h

\* C6: the stored worker count is at least 1 in every state, it is after
\* construction the resolution of some argument, and every setWorkerCount(n)
\* leaves n when n >= 1 and otherwise the detected hardware concurrency, or
\* 1 when that is 0.
C6_WorkerCountResolved ==
    /\ [](_workerCount >= 1)
    /\ [](\E n \in WorkerArgs, h \in HwValues : _workerCount = Resolved(n, h))
    /\ [][\A n \in WorkerArgs, h \in HwValues :
            SetWorkerCount(n, h) => _workerCount' = Resolved(n, h)]_vars

\* The count was changed to the largest value while a batch that read 1 runs.
C6_Witness ==
    /\ pc = "batch"
    /\ numThreads = 1
    /\ _workerCount = MaxWorkers

\* C7 as claimed: once an evaluation of a batch operator has thrown, the
\* call has ended with that exception at the caller and without a result.
C7_BatchFailurePropagates ==
    (primFailed /\ call.op \in {"evaluateBatch", "gainMulti", "gainElems"}) =>
        /\ pc = "raised"
        /\ error = EvaluationFailure
        /\ result = << >>

\* C8: a step by which a batch operator call hands its result on is taken
\* only when no iteration is pending or running and every entry has been
\* assigned; and a call that has dispatched a batch returns in the end,
\* unless an evaluation throws.
C8_JoinBarrier ==
    /\ [][(pc = "batch" /\ (pc' = "returned"
                              \/ (pc' = "batch" /\ batchNo' # batchNo))) =>
            /\ pending = {}
            /\ InFlight = {}
            /\ \A i \in 1..Len(utilities) : utilities[i].writes = 1]_vars
    /\ (pc = "batch") ~> (pc = "returned" \/ primFailed)

\* The second batch of operator()(S_multi, elem) is past its barrier.
C8_Witness ==
    /\ Returned("gainMulti")
    /\ nBatch = 2
    /\ Len(result) = MaxBatch

\* C9: a returned operator()(S, elems) has evaluated f M + 1 times, once on
\* S itself, and has called operator()(S_multi) once.
C9_ElemsEvaluationCount ==
    Returned("gainElems") =>
        /\ nEval = Len(call.elems) + 1
        /\ nEvalS = 1
        /\ nBatch = 1

C9_Witness ==
    /\ Returned("gainElems")
    /\ Len(call.elems) = MaxBatch
    /\ nEval = MaxBatch + 1
    /\ _workerCount = MaxWorkers

\* C10: the evaluations in flight never exceed the worker count read when
\* the batch operator call started; that count is the stored one at the
\* start and stays while the call runs; a setWorkerCount in between changes
\* nothing of the running call.
C10_InFlightBounded ==
    /\ [](pc = "batch" => Cardinality(InFlight) <= numThreads)
    /\ [][(pc' = "batch" /\ (pc # "batch" \/ batchNo' # batchNo)) =>
            numThreads' = _workerCount]_vars
    /\ [][(pc = "batch" /\ pc' = "batch" /\ batchNo' = batchNo) =>
            numThreads' = numThreads]_vars
    /\ [][_workerCount' # _workerCount =>
            UNCHANGED << call, pc, batchNo, batch, locals, result, error >>]_vars

\* As many evaluations in flight as the count read at the start allows,
\* after the stored count was lowered.
C10_Witness ==
    /\ pc = "batch"
    /\ numThreads = MaxWorkers
    /\ Cardinality(InFlight) = MaxWorkers
    /\ _workerCount = 1

====
